---- MODULE Spec2Model ----
(***************************************************************************)
(* Model of the translation bot of "PRO TRANSLATE PRO/bot.py": the message *)
(* splitters (split_long_message, split_twitter_thread), clean_text, the   *)
(* two sinks (post_to_twitter, post_to_telegram) and the confirmation      *)
(* handlers working on context.user_data.                                  *)
(*                                                                         *)
(* A Python str is a sequence of one-character strings; "" is << >>.       *)
(***************************************************************************)
EXTENDS Integers, Sequences, FiniteSets, TLC

\* ------------------------------------------------------------------------
\* Bounds of the model
\* ------------------------------------------------------------------------

\* longest input text given to the splitters under SplitSpec
MaxTextLen == 5

\* largest max_length given to the splitters under SplitSpec
MaxMaxLength == 3

\* number of updates (messages and button clicks) the bot receives
MaxUpdates == 3

\* ------------------------------------------------------------------------
\* Characters
\* ------------------------------------------------------------------------

\* characters matched by \s in the regular expressions and removed by
\* str.strip() / str.split()
Whitespace == {" ", "\n"}

\* the character class [.!?] of the sentence boundary
Punct == {".", "!", "?"}

\* the characters input texts are drawn from: a letter, a sentence
\* punctuation mark and two kinds of whitespace
Alphabet == {"a", ".", " ", "\n"}

Texts == UNION {[1..n -> Alphabet] : n \in 0..MaxTextLen}

\* ------------------------------------------------------------------------
\* str methods and re functions used by the splitters
\* ------------------------------------------------------------------------

\* s.strip()
Strip(s) ==
    LET nonws(i) == s[i] \notin Whitespace
    IN  IF \A i \in 1..Len(s) : ~nonws(i) THEN << >>
        ELSE LET first == CHOOSE i \in 1..Len(s) :
                              nonws(i) /\ \A k \in 1..(i - 1) : ~nonws(k)
                 last  == CHOOSE i \in 1..Len(s) :
                              nonws(i) /\ \A k \in (i + 1)..Len(s) : ~nonws(k)
             IN  SubSeq(s, first, last)

\* s[:n]
Prefix(s, n) == SubSeq(s, 1, IF n < Len(s) THEN n ELSE Len(s))

\* s[n:]
Suffix(s, n) == SubSeq(s, n + 1, Len(s))

\* last index of the run of whitespace that starts at index i of s
WsRunEnd(s, i) ==
    CHOOSE j \in i..Len(s) :
        /\ (j = Len(s) \/ s[j + 1] \notin Whitespace)
        /\ \A k \in i..j : s[k] \in Whitespace

\* last index of the run of non-whitespace that starts at index i of s
WordEnd(s, i) ==
    CHOOSE j \in i..Len(s) :
        /\ (j = Len(s) \/ s[j + 1] \in Whitespace)
        /\ \A k \in i..j : s[k] \notin Whitespace

\* the pieces of s between the matches of (?<=[.!?])\s+ found at or after
\* index `from`; `start` is where the current piece begins
RECURSIVE SentencesFrom(_, _, _)
SentencesFrom(s, from, start) ==
    LET match(i) == i > 1 /\ s[i - 1] \in Punct /\ s[i] \in Whitespace
    IN  IF \A i \in from..Len(s) : ~match(i)
        THEN << SubSeq(s, start, Len(s)) >>
        ELSE LET i == CHOOSE i \in from..Len(s) :
                          match(i) /\ \A k \in from..(i - 1) : ~match(k)
                 j == WsRunEnd(s, i)
             IN  << SubSeq(s, start, i - 1) >> \o SentencesFrom(s, j + 1, j + 1)

\* re.split(r'[.!?]\s+', s): without the lookbehind the punctuation mark is
\* part of the separator and is lost
ReSplitConsuming(s) ==
    LET p == SentencesFrom(s, 1, 1)
    IN  [n \in 1..Len(p) |->
            IF n < Len(p) THEN SubSeq(p[n], 1, Len(p[n]) - 1) ELSE p[n]]

\* re.split(r'(?<=[.!?])\s+', s)
ReSplitSentences(s) == SentencesFrom(s, 1, 1)

\* the words of s that start at or after index `from`
RECURSIVE WordsFrom(_, _)
WordsFrom(s, from) ==
    LET nonws(i) == s[i] \notin Whitespace
    IN  IF \A i \in from..Len(s) : ~nonws(i) THEN << >>
        ELSE LET i == CHOOSE i \in from..Len(s) :
                          nonws(i) /\ \A k \in from..(i - 1) : ~nonws(k)
                 j == WordEnd(s, i)
             IN  << SubSeq(s, i, j) >> \o WordsFrom(s, j + 1)

\* s.split()
Words(s) == WordsFrom(s, 1)

\* " ".join(parts)
RECURSIVE JoinSpace(_)
JoinSpace(parts) ==
    IF parts = << >> THEN << >>
    ELSE IF Len(parts) = 1 THEN parts[1]
    ELSE parts[1] \o << " " >> \o JoinSpace(Tail(parts))

\* re.sub(r'\s', ' ', s): every whitespace character becomes a space
CollapseEach(s) ==
    [n \in 1..Len(s) |-> IF s[n] \in Whitespace THEN " " ELSE s[n]]

\* re.sub(r'\s+', ' ', s): every run of whitespace becomes one space
RECURSIVE CollapseWs(_)
CollapseWs(s) ==
    IF s = << >> THEN << >>
    ELSE IF s[1] \in Whitespace
         THEN << " " >> \o CollapseWs(Suffix(s, WsRunEnd(s, 1)))
         ELSE << s[1] >> \o CollapseWs(Tail(s))

clean_text(s) == Strip(CollapseWs(s))

\* ------------------------------------------------------------------------
\* split_long_message (bot.py 168-206; UTILS/helpers.py 46-93 is the same)
\* ------------------------------------------------------------------------

\* one pass of "for word in words" (bot.py 190-200); st = [chunks, temp]
LongWordStep(st, word, max_length) ==
    IF Len(st.temp \o word) <= max_length
    THEN [st EXCEPT !.temp = st.temp \o word \o << " " >>]
    ELSE IF st.temp # << >>
         THEN [chunks |-> Append(st.chunks, Strip(st.temp)),
               temp   |-> word \o << " " >>]
         ELSE [chunks |-> Append(st.chunks, Prefix(word, max_length)),
               temp   |-> Suffix(word, max_length) \o << " " >>]

RECURSIVE LongWordLoop(_, _, _, _)
LongWordLoop(st, words, k, max_length) ==
    IF k > Len(words) THEN st
    ELSE LongWordLoop(LongWordStep(st, words[k], max_length), words, k + 1,
                      max_length)

\* one pass of "for sentence in sentences" (bot.py 179-201);
\* st = [chunks, cur]
LongSentenceStep(st, sentence, max_length) ==
    IF Len(st.cur \o sentence) <= max_length
    THEN [st EXCEPT !.cur = st.cur \o sentence \o << " " >>]
    ELSE IF st.cur # << >>
         THEN [chunks |-> Append(st.chunks, Strip(st.cur)),
               cur    |-> sentence \o << " " >>]
         ELSE LET w == LongWordLoop([chunks |-> st.chunks, temp |-> << >>],
                                    Words(sentence), 1, max_length)
              IN  [chunks |-> w.chunks, cur |-> w.temp]

RECURSIVE LongSentenceLoop(_, _, _, _)
LongSentenceLoop(st, sentences, k, max_length) ==
    IF k > Len(sentences) THEN st
    ELSE LongSentenceLoop(LongSentenceStep(st, sentences[k], max_length),
                          sentences, k + 1, max_length)

split_long_message(text, max_length) ==
    IF Len(text) <= max_length THEN << text >>
    ELSE LET st == LongSentenceLoop([chunks |-> << >>, cur |-> << >>],
                                    ReSplitSentences(text), 1, max_length)
         IN  IF st.cur # << >> THEN Append(st.chunks, Strip(st.cur))
             ELSE st.chunks

\* UTILS/helpers.py carries a copy of the same function
helpers_split_long_message(text, max_length) ==
    IF Len(text) <= max_length THEN << text >>
    ELSE LET st == LongSentenceLoop([chunks |-> << >>, cur |-> << >>],
                                    ReSplitSentences(text), 1, max_length)
         IN  IF st.cur # << >> THEN Append(st.chunks, Strip(st.cur))
             ELSE st.chunks

\* ------------------------------------------------------------------------
\* split_twitter_thread (bot.py 208-247)
\* ------------------------------------------------------------------------

\* a word loop that keeps a chunk strictly shorter than max_length
ThreadWordStepStrict(st, word, max_length) ==
    IF Len(st.temp \o << " " >> \o word) < max_length
    THEN [st EXCEPT !.temp = IF st.temp # << >>
                             THEN st.temp \o << " " >> \o word
                             ELSE word]
    ELSE IF st.temp # << >>
         THEN [chunks |-> Append(st.chunks, Strip(st.temp)),
               temp   |-> word]
         ELSE [chunks |-> Append(st.chunks, Prefix(word, max_length)),
               temp   |-> Suffix(word, max_length)]

\* one pass of "for word in words" (bot.py 229-239); st = [chunks, temp]
ThreadWordStep(st, word, max_length) ==
    IF Len(st.temp \o << " " >> \o word) <= max_length
    THEN [st EXCEPT !.temp = IF st.temp # << >>
                             THEN st.temp \o << " " >> \o word
                             ELSE word]
    ELSE IF st.temp # << >>
         THEN [chunks |-> Append(st.chunks, Strip(st.temp)),
               temp   |-> word]
         ELSE [chunks |-> Append(st.chunks, Prefix(word, max_length)),
               temp   |-> Suffix(word, max_length)]

RECURSIVE ThreadWordLoop(_, _, _, _)
ThreadWordLoop(st, words, k, max_length) ==
    IF k > Len(words) THEN st
    ELSE ThreadWordLoop(ThreadWordStep(st, words[k], max_length), words,
                        k + 1, max_length)

\* a sentence loop that puts a sentence that fits in front of the buffer
ThreadSentencePrepends(st, sentence, max_length) ==
    IF Len(st.cur \o << " " >> \o sentence) > max_length
    THEN IF st.cur # << >>
         THEN [chunks |-> Append(st.chunks, Strip(st.cur)),
               cur    |-> sentence]
         ELSE LET w == ThreadWordLoop([chunks |-> st.chunks, temp |-> << >>],
                                      Words(sentence), 1, max_length)
              IN  [chunks |-> w.chunks, cur |-> w.temp]
    ELSE [st EXCEPT !.cur = IF st.cur # << >>
                            THEN sentence \o << " " >> \o st.cur
                            ELSE sentence]

\* one pass of "for sentence in sentences" (bot.py 219-242);
\* st = [chunks, cur]
ThreadSentenceStep(st, sentence, max_length) ==
    IF Len(st.cur \o << " " >> \o sentence) > max_length
    THEN IF st.cur # << >>
         THEN [chunks |-> Append(st.chunks, Strip(st.cur)),
               cur    |-> sentence]
         ELSE LET w == ThreadWordLoop([chunks |-> st.chunks, temp |-> << >>],
                                      Words(sentence), 1, max_length)
              IN  [chunks |-> w.chunks, cur |-> w.temp]
    ELSE [st EXCEPT !.cur = IF st.cur # << >>
                            THEN st.cur \o << " " >> \o sentence
                            ELSE sentence]

RECURSIVE ThreadSentenceLoop(_, _, _, _)
ThreadSentenceLoop(st, sentences, k, max_length) ==
    IF k > Len(sentences) THEN st
    ELSE ThreadSentenceLoop(ThreadSentenceStep(st, sentences[k], max_length),
                            sentences, k + 1, max_length)

split_twitter_thread(text, max_length) ==
    IF Len(text) <= max_length THEN << text >>
    ELSE LET st == ThreadSentenceLoop([chunks |-> << >>, cur |-> << >>],
                                      ReSplitSentences(text), 1, max_length)
         IN  IF st.cur # << >> THEN Append(st.chunks, Strip(st.cur))
             ELSE st.chunks

\* ------------------------------------------------------------------------
\* Translations the bot handles
\* ------------------------------------------------------------------------

TWEET_LIMIT == 270

TELEGRAM_LIMIT == 4000

Rep(c, n) == [i \in 1..n |-> c]

\* a sentence of n characters ending in a full stop
Sentence(n) == Rep("a", n - 1) \o << "." >>

RECURSIVE Sentences(_, _)
Sentences(count, n) ==
    IF count = 1 THEN Sentence(n)
    ELSE Sentence(n) \o << " " >> \o Sentences(count - 1, n)

\* The translations translate_text returns, by name: one that fits a single
\* tweet, one that needs a thread of three tweets and one Telegram message,
\* and one unbroken token that needs two Telegram messages.
TextIds == {"short", "thread", "long"}

\* Further texts post_to_twitter and post_to_telegram can be called with:
\* two sentences separated by an empty line, one character over the tweet
\* limit; whitespace only, over the tweet limit and over the Telegram limit;
\* and the empty string.
DispatchTexts == TextIds \cup {"spaced", "blank", "blank_long", "empty"}

TextOf ==
    [short      |-> << "H", "o", "l", "a", "." >>,
     thread     |-> Sentences(3, 200),
     long       |-> Rep("a", TELEGRAM_LIMIT + 1),
     spaced     |-> Sentence(135) \o << "\n", "\n" >> \o Sentence(134),
     blank      |-> Rep(" ", TWEET_LIMIT + 1),
     blank_long |-> Rep(" ", TELEGRAM_LIMIT + 1),
     empty      |-> << >>]

None == "None"

\* ------------------------------------------------------------------------
\* State
\* ------------------------------------------------------------------------

VARIABLES
    arg_text,           \* the text argument of the splitter call
    arg_max_length,     \* the max_length argument of the splitter call
    called,             \* which function has been called on them
    returned,           \* the list it returned
    twitter_client,     \* translation_bot.twitter_client is not None
    user_data,          \* context.user_data of the user
    runs,               \* the updates received, in order, each with the
                        \* position and locals of the handler processing it
    create_tweet_calls, \* the calls of twitter_client.create_tweet, in order
    send_message_calls, \* the calls of bot.send_message to the group, in order
    acks                \* the replies and edits delivered to the user's chat

splitVars == << arg_text, arg_max_length, called, returned >>

botVars == << twitter_client, user_data, runs, create_tweet_calls,
              send_message_calls, acks >>

vars == << arg_text, arg_max_length, called, returned, twitter_client, user_data, runs,
           create_tweet_calls, send_message_calls, acks >>

\* context.user_data after clear(), and before anything is stored; the
\* original text is named by the number of its update (0: none)
EmptyUserData == [pending_translation |-> None, original_text |-> 0]

BotIdle ==
    /\ user_data = EmptyUserData
    /\ runs = << >>
    /\ create_tweet_calls = << >>
    /\ send_message_calls = << >>
    /\ acks = << >>

NoSplitCall ==
    /\ arg_text = << >>
    /\ arg_max_length = 1
    /\ called = "none"
    /\ returned = << >>

\* ------------------------------------------------------------------------
\* SplitSpec: the splitters and clean_text applied to every text and
\* max_length in bounds
\* ------------------------------------------------------------------------

SplitInit ==
    /\ arg_text \in Texts
    /\ arg_max_length \in 1..MaxMaxLength
    /\ called = "none"
    /\ returned = << >>
    /\ twitter_client = TRUE
    /\ BotIdle

CallSplitLongMessage ==
    /\ called = "none"
    /\ called' = "split_long_message"
    /\ returned' = split_long_message(arg_text, arg_max_length)
    /\ UNCHANGED << arg_text, arg_max_length >>
    /\ UNCHANGED botVars

CallHelpersSplitLongMessage ==
    /\ called = "none"
    /\ called' = "helpers.split_long_message"
    /\ returned' = helpers_split_long_message(arg_text, arg_max_length)
    /\ UNCHANGED << arg_text, arg_max_length >>
    /\ UNCHANGED botVars

CallSplitTwitterThread ==
    /\ called = "none"
    /\ called' = "split_twitter_thread"
    /\ returned' = split_twitter_thread(arg_text, arg_max_length)
    /\ UNCHANGED << arg_text, arg_max_length >>
    /\ UNCHANGED botVars

\* clean_text(text) (bot.py 249-253); max_length plays no part
CallCleanText ==
    /\ called = "none"
    /\ arg_max_length = 1
    /\ called' = "clean_text"
    /\ returned' = clean_text(arg_text)
    /\ UNCHANGED << arg_text, arg_max_length >>
    /\ UNCHANGED botVars

SplitNext ==
    \/ CallSplitLongMessage
    \/ CallHelpersSplitLongMessage
    \/ CallSplitTwitterThread
    \/ CallCleanText

SplitSpec == SplitInit /\ [][SplitNext]_vars

Splitters == {"split_long_message", "helpers.split_long_message",
              "split_twitter_thread"}

\* ------------------------------------------------------------------------
\* Updates and the order in which the application runs their handlers
\* ------------------------------------------------------------------------

\* Application.builder().token(...).build() (bot.py 714) leaves
\* concurrent_updates at its default: an update's handler runs to its end
\* before the next update is taken from the queue.
\* Application.builder().concurrent_updates(True)
concurrent_updates_on == TRUE

concurrent_updates == FALSE

Started(k) == runs[k].pc # "queued"

Finished(k) == runs[k].pc \in {"done", "raised"}

\* handlers that are between two awaits
Running == {k \in DOMAIN runs : Started(k) /\ ~Finished(k)}

\* positions from which the handler goes on without awaiting anything
\* (tweepy's create_tweet and the OpenAI call are blocking calls)
InBlockingCall(k) == runs[k].pc \in {"translate", "create_tweet"}

\* the handler of update k may take its next step
CanRun(k) ==
    /\ k \in DOMAIN runs
    /\ IF concurrent_updates
       THEN /\ \A j \in 1..(k - 1) : Started(j)
            /\ \A j \in DOMAIN runs : j # k => ~InBlockingCall(j)
       ELSE \A j \in 1..(k - 1) : Finished(j)

\* twitter_result and telegram_result of handle_button_callback (bot.py
\* 579-580) before the call that assigns them has returned
NoResult == [returned |-> FALSE]

NewRun(kind, lang) ==
    [kind            |-> kind,
     lang            |-> lang,
     \* for a click, the update whose handler was running when the button
     \* was pressed; for a message, the confirm whose handler was running
     \* when it arrived (0: none)
     arrived_during  |-> IF \/ Running = {}
                            \/ /\ kind = "message"
                               /\ \A k \in Running :
                                      runs[k].kind # "confirm_share"
                         THEN 0
                         ELSE CHOOSE k \in Running : \A j \in Running : k <= j,
     pc              |-> "queued",
     translation     |-> None,
     i               |-> 0,
     tweet_ids       |-> << >>,
     twitter_result  |-> NoResult,
     telegram_result |-> NoResult]

Acked(k, kind) == \E n \in DOMAIN acks : acks[n] = [run |-> k, kind |-> kind]

\* A text message arrives (MessageHandler(filters.TEXT & ~filters.COMMAND),
\* bot.py 726); lang is what detect_language will say about it.
ReceiveMessage ==
    /\ Len(runs) < MaxUpdates
    /\ \E lang \in {"en", "other"} :
           runs' = Append(runs, NewRun("message", lang))
    /\ UNCHANGED << twitter_client, user_data, create_tweet_calls,
                    send_message_calls, acks >>
    /\ UNCHANGED splitVars

\* The user presses a button of a prompt (CallbackQueryHandler, bot.py 723;
\* the buttons are those of bot.py 684-689).
ReceiveClick ==
    /\ Len(runs) < MaxUpdates
    /\ \E k \in DOMAIN runs : Acked(k, "prompt")
    /\ \E data \in {"confirm_share", "deny_share"} :
           runs' = Append(runs, NewRun(data, None))
    /\ UNCHANGED << twitter_client, user_data, create_tweet_calls,
                    send_message_calls, acks >>
    /\ UNCHANGED splitVars

\* ------------------------------------------------------------------------
\* handle_auto_translation (bot.py 621-703)
\* ------------------------------------------------------------------------

\* bot.py 623-669: up to the first await
StartMessage(k) ==
    /\ CanRun(k)
    /\ runs[k].kind = "message"
    /\ runs[k].pc = "queued"
    /\ runs' = [runs EXCEPT ![k].pc = IF runs[k].lang # "en" THEN "done"
                                      ELSE "reply_translating"]
    /\ UNCHANGED << twitter_client, user_data, create_tweet_calls,
                    send_message_calls, acks >>
    /\ UNCHANGED splitVars

\* bot.py 672: await update.message.reply_text(...); a failure is caught at
\* bot.py 701 and only logged
ReplyTranslating(k) ==
    /\ CanRun(k)
    /\ runs[k].pc = "reply_translating"
    /\ \E ok \in BOOLEAN :
           IF ok
           THEN /\ acks' = Append(acks, [run |-> k, kind |-> "translating"])
                /\ runs' = [runs EXCEPT ![k].pc = "translate"]
           ELSE /\ acks' = acks
                /\ runs' = [runs EXCEPT ![k].pc = "done"]
    /\ UNCHANGED << twitter_client, user_data, create_tweet_calls,
                    send_message_calls >>
    /\ UNCHANGED splitVars

\* what translate_text (bot.py 296-328) returns: None, "" or a translation
TranslateResults == TextIds \cup {None, ""}

\* a handler that stores with user_data.setdefault(...): a translation that
\* is already pending is kept
TranslateKeepsPending(k) ==
    /\ CanRun(k)
    /\ runs[k].pc = "translate"
    /\ \E translation \in TranslateResults :
           IF translation \notin {None, ""}
           THEN /\ user_data' = IF user_data.pending_translation = None
                                 THEN [pending_translation |-> translation,
                                       original_text       |-> k]
                                 ELSE user_data
                /\ runs' = [runs EXCEPT ![k].translation = translation,
                                        ![k].pc = "edit_prompt"]
           ELSE /\ user_data' = user_data
                /\ runs' = [runs EXCEPT ![k].translation = translation,
                                        ![k].pc = "edit_failure"]
    /\ UNCHANGED << twitter_client, create_tweet_calls, send_message_calls,
                    acks >>
    /\ UNCHANGED splitVars

\* a handler that stores whatever translate_text returned
TranslateStoresAnyway(k) ==
    /\ CanRun(k)
    /\ runs[k].pc = "translate"
    /\ \E translation \in TranslateResults :
           /\ user_data' = [pending_translation |-> translation,
                            original_text       |-> k]
           /\ runs' = [runs EXCEPT ![k].translation = translation,
                                   ![k].pc = IF translation \notin {None, ""}
                                             THEN "edit_prompt"
                                             ELSE "edit_failure"]
    /\ UNCHANGED << twitter_client, create_tweet_calls, send_message_calls,
                    acks >>
    /\ UNCHANGED splitVars

\* bot.py 675-681: the translation is stored if it is truthy
Translate(k) ==
    /\ CanRun(k)
    /\ runs[k].pc = "translate"
    /\ \E translation \in TranslateResults :
           IF translation \notin {None, ""}
           THEN /\ user_data' = [pending_translation |-> translation,
                                 original_text       |-> k]
                /\ runs' = [runs EXCEPT ![k].translation = translation,
                                        ![k].pc = "edit_prompt"]
           ELSE /\ user_data' = user_data
                /\ runs' = [runs EXCEPT ![k].translation = translation,
                                        ![k].pc = "edit_failure"]
    /\ UNCHANGED << twitter_client, create_tweet_calls, send_message_calls,
                    acks >>
    /\ UNCHANGED splitVars

\* bot.py 695: await processing_msg.edit_text(response, reply_markup=...)
EditPrompt(k) ==
    /\ CanRun(k)
    /\ runs[k].pc = "edit_prompt"
    /\ \E ok \in BOOLEAN :
           acks' = IF ok THEN Append(acks, [run |-> k, kind |-> "prompt"])
                   ELSE acks
    /\ runs' = [runs EXCEPT ![k].pc = "done"]
    /\ UNCHANGED << twitter_client, user_data, create_tweet_calls,
                    send_message_calls >>
    /\ UNCHANGED splitVars

\* bot.py 699: await processing_msg.edit_text("Error en la traduccion.")
EditFailure(k) ==
    /\ CanRun(k)
    /\ runs[k].pc = "edit_failure"
    /\ \E ok \in BOOLEAN :
           acks' = IF ok
                   THEN Append(acks, [run |-> k, kind |-> "translation_error"])
                   ELSE acks
    /\ runs' = [runs EXCEPT ![k].pc = "done"]
    /\ UNCHANGED << twitter_client, user_data, create_tweet_calls,
                    send_message_calls >>
    /\ UNCHANGED splitVars

\* ------------------------------------------------------------------------
\* post_to_twitter (bot.py 330-388) and post_to_telegram (bot.py 390-426)
\* ------------------------------------------------------------------------

\* bot.py 360: chunks = split_twitter_thread(text, 270)
TwitterChunks ==
    [short  |-> split_twitter_thread(TextOf.short, TWEET_LIMIT),
     thread |-> split_twitter_thread(TextOf.thread, TWEET_LIMIT),
     long   |-> split_twitter_thread(TextOf.long, TWEET_LIMIT),
     spaced |-> split_twitter_thread(TextOf.spaced, TWEET_LIMIT),
     blank  |-> split_twitter_thread(TextOf.blank, TWEET_LIMIT),
     blank_long |-> split_twitter_thread(TextOf.blank_long, TWEET_LIMIT),
     empty  |-> split_twitter_thread(TextOf.empty, TWEET_LIMIT)]

\* bot.py 397: message_chunks = split_long_message(text, 4000)
TelegramChunks ==
    [short  |-> split_long_message(TextOf.short, TELEGRAM_LIMIT),
     thread |-> split_long_message(TextOf.thread, TELEGRAM_LIMIT),
     long   |-> split_long_message(TextOf.long, TELEGRAM_LIMIT),
     spaced |-> split_long_message(TextOf.spaced, TELEGRAM_LIMIT),
     blank  |-> split_long_message(TextOf.blank, TELEGRAM_LIMIT),
     blank_long |-> split_long_message(TextOf.blank_long, TELEGRAM_LIMIT),
     empty  |-> split_long_message(TextOf.empty, TELEGRAM_LIMIT)]

\* bot.py 348: the else branch, a thread
NeedsThread(t) == ~(Len(TextOf[t]) <= TWEET_LIMIT)

\* number of create_tweet calls a complete post of t makes
TweetCount(t) == IF NeedsThread(t) THEN Len(TwitterChunks[t]) ELSE 1

\* bot.py 417-420: every send_message call returned
MessagesSent(run) ==
    [run EXCEPT !.pc = "edit_results",
                !.telegram_result =
                    [success |-> TRUE,
                     messages |-> Len(TelegramChunks[run.translation]),
                     error |-> None]]

\* bot.py 396-400: post_to_telegram up to its first send_message; with no
\* chunk the loop body never runs
BeginTelegram(run) ==
    IF TelegramChunks[run.translation] = << >>
    THEN MessagesSent(run)
    ELSE [run EXCEPT !.pc = "send_message", !.i = 1]

\* a thread whose every reply answers the first post
ReplyToFirst(i, tweet_ids) == IF i = 1 THEN 0 ELSE tweet_ids[1]

\* bot.py 364 and 372: in_reply_to_tweet_id of the i-th create_tweet call
\* (0: the argument is not given)
ReplyTarget(i, tweet_ids) == IF i = 1 THEN 0 ELSE tweet_ids[Len(tweet_ids)]

\* a post_to_twitter without its except clause: the exception of
\* create_tweet leaves handle_button_callback
TweetFailedRaises(run) == [run EXCEPT !.pc = "raised"]

\* bot.py 385-388: create_tweet raised; result keeps the values of bot.py 332
\* but for the error, and the confirm handler goes on with post_to_telegram
TweetFailed(run) ==
    BeginTelegram([run EXCEPT !.twitter_result =
        [success |-> FALSE, tweets |-> 0, thread |-> FALSE,
         error |-> "create_tweet failed"]])

\* bot.py 352-354 and 377-379: every create_tweet call returned
TweetsPosted(run) ==
    BeginTelegram([run EXCEPT !.twitter_result =
        [success |-> TRUE, tweets |-> TweetCount(run.translation),
         thread |-> NeedsThread(run.translation), error |-> None]])

\* bot.py 332-348: post_to_twitter up to its first create_tweet.  A client
\* exists only if ENABLE_TWITTER_SHARING is set (bot.py 272-279), so the
\* check of bot.py 341 never holds when the one of bot.py 336 does not.
BeginTwitter(run) ==
    IF ~twitter_client
    THEN BeginTelegram([run EXCEPT !.twitter_result =
             [success |-> FALSE, tweets |-> 0, thread |-> FALSE,
              error |-> "Twitter client not initialized"]])
    ELSE IF NeedsThread(run.translation)
            /\ TwitterChunks[run.translation] = << >>
    THEN \* bot.py 364: chunks[0] raises IndexError, caught at bot.py 385
         [TweetFailed(run) EXCEPT
              !.twitter_result.error = "list index out of range"]
    ELSE [run EXCEPT !.pc = "create_tweet", !.i = 1, !.tweet_ids = << >>]

\* a post_to_telegram whose try is inside the loop: after a failed chunk it
\* goes on with the next one
SendFailedGoesOn(run) ==
    IF run.i < Len(TelegramChunks[run.translation])
    THEN [run EXCEPT !.i = run.i + 1]
    ELSE [run EXCEPT !.pc = "edit_results",
                     !.telegram_result = [success |-> FALSE, messages |-> 0,
                                          error |-> "send_message failed"]]

\* a post_to_telegram without its except clause
SendFailedRaises(run) == [run EXCEPT !.pc = "raised"]

\* bot.py 422-426: send_message raised
SendFailed(run) ==
    [run EXCEPT !.pc = "edit_results",
                !.telegram_result = [success |-> FALSE, messages |-> 0,
                                     error |-> "send_message failed"]]

\* One call of twitter_client.create_tweet (bot.py 351, 364, 370-373).
\* part 0 is the whole text, part i the i-th chunk; marker tells whether the
\* thread emoji is appended.
CreateTweet(k) ==
    /\ CanRun(k)
    /\ runs[k].pc = "create_tweet"
    /\ LET run    == runs[k]
           t      == run.translation
           thread == NeedsThread(t)
           id     == Len(create_tweet_calls) + 1
           call(ok) == [run         |-> k,
                        src         |-> t,
                        part        |-> IF thread THEN run.i ELSE 0,
                        marker      |-> thread /\ run.i = 1,
                        in_reply_to |-> ReplyTarget(run.i, run.tweet_ids),
                        id          |-> IF ok THEN id ELSE 0,
                        ok          |-> ok]
       IN  \E ok \in BOOLEAN :
               IF ok
               THEN /\ create_tweet_calls' = Append(create_tweet_calls,
                                                        call(TRUE))
                    /\ LET posted == [run EXCEPT
                                         !.tweet_ids = Append(@, id)]
                       IN  runs' = [runs EXCEPT ![k] =
                               IF run.i < TweetCount(t)
                               THEN [posted EXCEPT !.i = run.i + 1]
                               ELSE TweetsPosted(posted)]
               ELSE /\ create_tweet_calls' = Append(create_tweet_calls,
                                                        call(FALSE))
                    /\ runs' = [runs EXCEPT ![k] = TweetFailed(run)]
    /\ UNCHANGED << twitter_client, user_data, send_message_calls, acks >>
    /\ UNCHANGED splitVars

\* One call of bot.send_message to the group (bot.py 400-413); `of` is the
\* number of chunks, shown in the part indicator when it is more than one.
SendMessage(k) ==
    /\ CanRun(k)
    /\ runs[k].pc = "send_message"
    /\ LET run  == runs[k]
           t    == run.translation
           n    == Len(TelegramChunks[t])
       IN  \E ok \in BOOLEAN :
               /\ send_message_calls' = Append(send_message_calls,
                      [run |-> k, src |-> t, part |-> run.i, of |-> n,
                       ok |-> ok])
               /\ runs' = [runs EXCEPT ![k] =
                      IF ~ok THEN SendFailed(run)
                      ELSE IF run.i < n THEN [run EXCEPT !.i = run.i + 1]
                      ELSE MessagesSent(run)]
    /\ UNCHANGED << twitter_client, user_data, create_tweet_calls, acks >>
    /\ UNCHANGED splitVars

\* ------------------------------------------------------------------------
\* handle_button_callback (bot.py 555-619)
\* ------------------------------------------------------------------------

\* bot.py 563-569 and 615-617: await query.answer(), then the branch on
\* query.data; the confirm branch reads the pending translation
Answer(k) ==
    /\ CanRun(k)
    /\ runs[k].kind \in {"confirm_share", "deny_share"}
    /\ runs[k].pc = "queued"
    /\ \E ok \in BOOLEAN :
           runs' = [runs EXCEPT ![k] =
               IF ~ok THEN [@ EXCEPT !.pc = "raised"]
               ELSE IF @.kind = "deny_share"
                    THEN [@ EXCEPT !.pc = "edit_cancelled"]
               ELSE IF user_data.pending_translation \in {None, ""}
                    THEN [@ EXCEPT !.pc = "edit_no_pending"]
               ELSE [@ EXCEPT !.pc = "edit_sharing",
                              !.translation = user_data.pending_translation]]
    /\ UNCHANGED << twitter_client, user_data, create_tweet_calls,
                    send_message_calls, acks >>
    /\ UNCHANGED splitVars

\* bot.py 571-572: await query.edit_message_text("No hay traduccion
\* pendiente."); return
EditNoPending(k) ==
    /\ CanRun(k)
    /\ runs[k].pc = "edit_no_pending"
    /\ \E ok \in BOOLEAN :
           IF ok
           THEN /\ acks' = Append(acks, [run |-> k, kind |-> "no_pending"])
                /\ runs' = [runs EXCEPT ![k].pc = "done"]
           ELSE /\ acks' = acks
                /\ runs' = [runs EXCEPT ![k].pc = "raised"]
    /\ UNCHANGED << twitter_client, user_data, create_tweet_calls,
                    send_message_calls >>
    /\ UNCHANGED splitVars

\* bot.py 575-579: await query.edit_message_text("Compartiendo ..."), then
\* post_to_twitter is entered
EditSharing(k) ==
    /\ CanRun(k)
    /\ runs[k].pc = "edit_sharing"
    /\ \E ok \in BOOLEAN :
           IF ok
           THEN /\ acks' = Append(acks, [run |-> k, kind |-> "sharing"])
                /\ runs' = [runs EXCEPT ![k] = BeginTwitter(@)]
           ELSE /\ acks' = acks
                /\ runs' = [runs EXCEPT ![k].pc = "raised"]
    /\ UNCHANGED << twitter_client, user_data, create_tweet_calls,
                    send_message_calls >>
    /\ UNCHANGED splitVars

\* bot.py 607-613: await query.edit_message_text(final_message, ...), then
\* context.user_data.clear()
EditResults(k) ==
    /\ CanRun(k)
    /\ runs[k].pc = "edit_results"
    /\ \E ok \in BOOLEAN :
           IF ok
           THEN /\ acks' = Append(acks, [run |-> k, kind |-> "results"])
                /\ user_data' = EmptyUserData
                /\ runs' = [runs EXCEPT ![k].pc = "done"]
           ELSE /\ acks' = acks
                /\ user_data' = user_data
                /\ runs' = [runs EXCEPT ![k].pc = "raised"]
    /\ UNCHANGED << twitter_client, create_tweet_calls, send_message_calls >>
    /\ UNCHANGED splitVars

\* a deny branch without context.user_data.clear()
EditCancelledKeeps(k) ==
    /\ CanRun(k)
    /\ runs[k].pc = "edit_cancelled"
    /\ \E ok \in BOOLEAN :
           IF ok
           THEN /\ acks' = Append(acks, [run |-> k, kind |-> "cancelled"])
                /\ runs' = [runs EXCEPT ![k].pc = "done"]
           ELSE /\ acks' = acks
                /\ runs' = [runs EXCEPT ![k].pc = "raised"]
    /\ UNCHANGED << twitter_client, user_data, create_tweet_calls,
                    send_message_calls >>
    /\ UNCHANGED splitVars

\* bot.py 618-619: await query.edit_message_text("Comparticion cancelada."),
\* then context.user_data.clear()
EditCancelled(k) ==
    /\ CanRun(k)
    /\ runs[k].pc = "edit_cancelled"
    /\ \E ok \in BOOLEAN :
           IF ok
           THEN /\ acks' = Append(acks, [run |-> k, kind |-> "cancelled"])
                /\ user_data' = EmptyUserData
                /\ runs' = [runs EXCEPT ![k].pc = "done"]
           ELSE /\ acks' = acks
                /\ user_data' = user_data
                /\ runs' = [runs EXCEPT ![k].pc = "raised"]
    /\ UNCHANGED << twitter_client, create_tweet_calls, send_message_calls >>
    /\ UNCHANGED splitVars

\* ------------------------------------------------------------------------
\* Spec: the bot
\* ------------------------------------------------------------------------

\* setup_apis (bot.py 263-294) leaves a Twitter client or None
Init ==
    /\ twitter_client \in BOOLEAN
    /\ BotIdle
    /\ NoSplitCall

Next ==
    \/ ReceiveMessage
    \/ ReceiveClick
    \/ \E k \in 1..MaxUpdates :
           \/ StartMessage(k)
           \/ ReplyTranslating(k)
           \/ Translate(k)
           \/ EditPrompt(k)
           \/ EditFailure(k)
           \/ Answer(k)
           \/ EditNoPending(k)
           \/ EditSharing(k)
           \/ CreateTweet(k)
           \/ SendMessage(k)
           \/ EditResults(k)
           \/ EditCancelled(k)

Spec == Init /\ [][Next]_vars

\* ------------------------------------------------------------------------
\* DispatchSpec: post_to_twitter, then post_to_telegram, called with every
\* text of DispatchTexts as bot.py 579-580 calls them, up to the end of the
\* calling handler
\* ------------------------------------------------------------------------

\* the caller of the two functions, with the text as its translation
Dispatcher(t) ==
    [kind            |-> "confirm_share",
     lang            |-> None,
     arrived_during  |-> 0,
     pc              |-> "edit_sharing",
     translation     |-> t,
     i               |-> 0,
     tweet_ids       |-> << >>,
     twitter_result  |-> NoResult,
     telegram_result |-> NoResult]

DispatchInit ==
    /\ twitter_client \in BOOLEAN
    /\ \E t \in DispatchTexts : runs = << BeginTwitter(Dispatcher(t)) >>
    /\ user_data = EmptyUserData
    /\ create_tweet_calls = << >>
    /\ send_message_calls = << >>
    /\ acks = << >>
    /\ NoSplitCall

DispatchNext ==
    \/ CreateTweet(1)
    \/ SendMessage(1)
    \/ EditResults(1)

DispatchSpec == DispatchInit /\ [][DispatchNext]_vars

\* ========================================================================
\* Properties
\* ========================================================================

\* ------------------------------------------------------------------------
\* C1: length bound of the splitters
\* ------------------------------------------------------------------------

\* C1 (as claimed): for every text and every max_length >= 1, every chunk
\* returned by split_long_message and by split_twitter_thread has length
\* <= max_length.
LengthBound ==
    called \in Splitters =>
        \A n \in 1..Len(returned) : Len(returned[n]) <= arg_max_length

\* ------------------------------------------------------------------------
\* C2: round trip of the splitters
\* ------------------------------------------------------------------------

\* " ".join(chunks).strip(), normalized, is the normalized input
RoundTripHolds ==
    clean_text(Strip(JoinSpace(returned))) = clean_text(arg_text)

\* no word of the input is longer than max_length
WordsFit ==
    \A n \in 1..Len(Words(arg_text)) :
        Len(Words(arg_text)[n]) <= arg_max_length

\* C2 (as claimed): for every text and every max_length >= 1, joining the
\* returned chunks with single spaces, stripping and normalizing gives
\* normalize(text), also when a word had to be cut at max_length.
RoundTrip == called \in Splitters => RoundTripHolds

\* C2 (amended): for every text none of whose words is longer than
\* max_length, and every max_length >= 1, joining the returned chunks with
\* single spaces, stripping and normalizing gives normalize(text).
RoundTripWordsFit == (called \in Splitters /\ WordsFit) => RoundTripHolds

\* C2 witness: a text that had to be split into several chunks, whose
\* normal form differs from it, and none of whose words is too long
RoundTripWitness ==
    /\ called \in Splitters
    /\ WordsFit
    /\ Len(returned) >= 2
    /\ clean_text(arg_text) # arg_text
    /\ RoundTripHolds

\* ------------------------------------------------------------------------
\* Vocabulary of the properties of the bot
\* ------------------------------------------------------------------------

IsMessage(k) == runs[k].kind = "message"
IsConfirm(k) == runs[k].kind = "confirm_share"
IsDeny(k)    == runs[k].kind = "deny_share"

MaxOf(S) == CHOOSE x \in S : \A y \in S : y <= x

\* the create_tweet and send_message calls made by the handler of update k
TweetCallsOf(k) ==
    {n \in DOMAIN create_tweet_calls : create_tweet_calls[n].run = k}
SendCallsOf(k) ==
    {n \in DOMAIN send_message_calls : send_message_calls[n].run = k}

\* the handler of update k created a post on some sink
Posted(k) ==
    \/ \E n \in TweetCallsOf(k) : create_tweet_calls[n].ok
    \/ \E n \in SendCallsOf(k) : send_message_calls[n].ok

\* the message handler of update m stored its translation
Stored(m) == IsMessage(m) /\ runs[m].translation \in TextIds

\* no handler after the one of update k has begun
LatestHandler(k) == \A j \in DOMAIN runs : j > k => ~Started(j)

\* the button of one of the two updates was pressed while the handler of the
\* other was running
Overlap(c, d) == runs[d].arrived_during = c \/ runs[c].arrived_during = d

\* ------------------------------------------------------------------------
\* C3: a confirm and a deny that overlap
\* ------------------------------------------------------------------------

\* C3 (as claimed): when a confirm and a deny of the same conversation
\* overlap while a translation is pending, one of them succeeds and the other
\* observes that nothing is pending; the deny is never acknowledged as
\* cancelled while the confirm also posts.
RaceSafety ==
    \A c \in DOMAIN runs : \A d \in DOMAIN runs :
        (IsConfirm(c) /\ IsDeny(d) /\ Overlap(c, d)) =>
            ~(Posted(c) /\ Acked(d, "cancelled"))

\* ------------------------------------------------------------------------
\* C4: no external post without confirmation
\* ------------------------------------------------------------------------

SinglePending ==
    /\ user_data.pending_translation \in TextIds \cup {None}
    /\ \A c \in DOMAIN runs :
           (IsConfirm(c) /\ runs[c].translation # None) =>
               LET stores == {m \in 1..(c - 1) : Stored(m)}
               IN  /\ stores # {}
                   /\ runs[c].translation = runs[MaxOf(stores)].translation
                   /\ \A n \in TweetCallsOf(c) :
                          create_tweet_calls[n].src =
                              runs[MaxOf(stores)].translation
                   /\ \A n \in SendCallsOf(c) :
                          send_message_calls[n].src =
                              runs[MaxOf(stores)].translation

\* C5 witness: two stores of different translations in a row, then a confirm
\* that posted the second
SinglePendingWitness ==
    /\ Len(runs) = 3
    /\ Stored(1) /\ Stored(2) /\ IsConfirm(3)
    /\ runs[1].translation # runs[2].translation
    /\ runs[3].translation = runs[2].translation
    /\ Posted(3)

\* ------------------------------------------------------------------------
\* C6: a confirm consumes the pending translation
\* ------------------------------------------------------------------------

\* C6 (as claimed): when a confirm that found a translation pending has
\* finished, its dispatch complete, nothing is pending, whatever the outcome
\* of each sink and of the final acknowledgement.
ConfirmConsumes ==
    \A c \in DOMAIN runs :
        (/\ IsConfirm(c)
         /\ runs[c].telegram_result # NoResult
         /\ Finished(c)
         /\ LatestHandler(c)) => user_data.pending_translation = None

\* ------------------------------------------------------------------------
\* C7: thread chaining
\* ------------------------------------------------------------------------

\* C7: the posts of a thread are created in chunk order; the first is no
\* reply, and every later one replies to the post created just before it by
\* the same dispatch.
ThreadChaining ==
    \A n \in DOMAIN create_tweet_calls :
        LET call == create_tweet_calls[n]
            prev == {m \in 1..(n - 1) : create_tweet_calls[m].run = call.run}
        IN  IF call.part <= 1
            THEN call.in_reply_to = 0 /\ prev = {}
            ELSE /\ prev # {}
                 /\ LET p == create_tweet_calls[MaxOf(prev)]
                    IN  /\ p.ok
                        /\ p.part = call.part - 1
                        /\ p.src = call.src
                        /\ call.in_reply_to = p.id

\* C7 witness: the third post of a thread was created
ThreadChainingWitness ==
    \E n \in DOMAIN create_tweet_calls :
        create_tweet_calls[n].part = 3 /\ create_tweet_calls[n].ok

\* ------------------------------------------------------------------------
\* C8: count of a thread that failed part-way
\* ------------------------------------------------------------------------

\* C8 (as claimed): when the creation of the k-th post of a thread fails,
\* k >= 2, the result of the social sink is a failure with an error and its
\* count is the number of posts created before the failure.
PartialFailureCount ==
    \A k \in DOMAIN runs :
        (/\ runs[k].twitter_result # NoResult
         /\ \E n \in TweetCallsOf(k) :
                ~create_tweet_calls[n].ok /\ create_tweet_calls[n].part >= 2)
        => /\ ~runs[k].twitter_result.success
           /\ runs[k].twitter_result.error # None
           /\ runs[k].twitter_result.tweets =
                  Cardinality({n \in TweetCallsOf(k) :
                                   create_tweet_calls[n].ok})

\* ------------------------------------------------------------------------
\* C9: the sinks are independent
\* ------------------------------------------------------------------------

\* every chunk of the translation of update k was posted on the social sink
AllTweeted(k) ==
    \A i \in 1..TweetCount(runs[k].translation) :
        \E n \in TweetCallsOf(k) :
            /\ create_tweet_calls[n].ok
            /\ create_tweet_calls[n].part =
                   (IF NeedsThread(runs[k].translation) THEN i ELSE 0)

\* every chunk of the translation of update k was sent to the group chat
AllSent(k) ==
    \A i \in 1..Len(TelegramChunks[runs[k].translation]) :
        \E n \in SendCallsOf(k) :
            send_message_calls[n].ok /\ send_message_calls[n].part = i

\* C9: once a confirm has begun to dispatch, whatever happens on the social
\* sink (success, failure, no client) the chat sink is attempted, from the
\* first chunk of the full translation; the handler does not leave the
\* dispatch by an exception; and the result of each sink tells what happened
\* on that sink alone.
SinkIndependence ==
    \A k \in DOMAIN runs :
        (IsConfirm(k) /\ Acked(k, "sharing")) =>
            /\ runs[k].pc = "raised" => runs[k].telegram_result # NoResult
            /\ runs[k].twitter_result # NoResult =>
                   /\ runs[k].twitter_result.success = AllTweeted(k)
                   /\ runs[k].twitter_result.success =
                          (runs[k].twitter_result.error = None)
                   /\ runs[k].pc = "send_message" \/ SendCallsOf(k) # {}
                   /\ \A n \in SendCallsOf(k) :
                          /\ send_message_calls[n].src = runs[k].translation
                          /\ send_message_calls[n].of =
                                 Len(TelegramChunks[runs[k].translation])
            /\ runs[k].telegram_result # NoResult =>
                   /\ runs[k].twitter_result # NoResult
                   /\ runs[k].telegram_result.success = AllSent(k)
                   /\ runs[k].telegram_result.success =
                          (runs[k].telegram_result.error = None)

\* C9 witness: a thread failed part-way on the social sink and the whole
\* translation was sent to the chat
SinkIndependenceWitness ==
    \E k \in DOMAIN runs :
        /\ runs[k].telegram_result # NoResult
        /\ runs[k].telegram_result.success
        /\ ~runs[k].twitter_result.success
        /\ \E n \in TweetCallsOf(k) :
               ~create_tweet_calls[n].ok /\ create_tweet_calls[n].part = 2

\* ------------------------------------------------------------------------
\* C10: a sink stops at its first failure
\* ------------------------------------------------------------------------

\* C10: on either sink, after a call of a dispatch has failed that dispatch
\* makes no further call on that sink, the result of the sink is a failure
\* with an error, and the chunks sent before the failure stay sent.
FailFast ==
    /\ \A n \in DOMAIN create_tweet_calls :
           ~create_tweet_calls[n].ok =>
               LET k == create_tweet_calls[n].run
               IN  /\ \A m \in TweetCallsOf(k) : m <= n
                   /\ runs[k].twitter_result # NoResult
                   /\ ~runs[k].twitter_result.success
                   /\ runs[k].twitter_result.error # None
                   /\ \A i \in 1..(create_tweet_calls[n].part - 1) :
                          \E m \in TweetCallsOf(k) :
                              /\ create_tweet_calls[m].ok
                              /\ create_tweet_calls[m].part = i
    /\ \A n \in DOMAIN send_message_calls :
           ~send_message_calls[n].ok =>
               LET k == send_message_calls[n].run
               IN  /\ \A m \in SendCallsOf(k) : m <= n
                   /\ runs[k].telegram_result # NoResult
                   /\ ~runs[k].telegram_result.success
                   /\ runs[k].telegram_result.error # None
                   /\ \A i \in 1..(send_message_calls[n].part - 1) :
                          \E m \in SendCallsOf(k) :
                              /\ send_message_calls[m].ok
                              /\ send_message_calls[m].part = i

\* C10 witness: the first of two chat chunks failed and the handler went on
\* to its final acknowledgement
FailFastWitness ==
    \E n \in DOMAIN send_message_calls :
        /\ ~send_message_calls[n].ok
        /\ send_message_calls[n].part = 1
        /\ send_message_calls[n].of = 2
        /\ Finished(send_message_calls[n].run)

\* ------------------------------------------------------------------------
\* C11: the dispatcher never raises
\* ------------------------------------------------------------------------

\* C11: for every text (the empty and the whitespace-only ones included) and
\* every failure of a create_tweet or send_message call, post_to_twitter and
\* post_to_telegram return a result record and no exception reaches their
\* caller; a failed call is reported in the error field of the record.
NeverRaises ==
    \A k \in DOMAIN runs :
        /\ runs[k].pc # "create_tweet" => runs[k].twitter_result # NoResult
        /\ runs[k].pc \notin {"create_tweet", "send_message"} =>
               runs[k].telegram_result # NoResult
        /\ (\E n \in TweetCallsOf(k) : ~create_tweet_calls[n].ok) =>
               /\ runs[k].twitter_result # NoResult
               /\ ~runs[k].twitter_result.success
               /\ runs[k].twitter_result.error # None
        /\ (\E n \in SendCallsOf(k) : ~send_message_calls[n].ok) =>
               /\ runs[k].telegram_result # NoResult
               /\ ~runs[k].telegram_result.success
               /\ runs[k].telegram_result.error # None

\* C11 witness: a whitespace-only text longer than the tweet limit, for which
\* the thread has no first chunk, and whose send_message call failed; both
\* functions have returned
NeverRaisesWitness ==
    /\ Len(runs) = 1
    /\ runs[1].translation = "blank"
    /\ runs[1].pc = "edit_results"
    /\ runs[1].twitter_result.error = "list index out of range"
    /\ \E n \in SendCallsOf(1) : ~send_message_calls[n].ok
    /\ runs[1].telegram_result.error # None

\* ------------------------------------------------------------------------
\* C12: a failed translation stores nothing
\* ------------------------------------------------------------------------

\* translate_text has returned None or "" to the handler of update m
TranslationFailed(m) ==
    /\ IsMessage(m)
    /\ runs[m].pc \in {"edit_failure", "done"}
    /\ runs[m].lang = "en"
    /\ runs[m].translation \in {None, ""}
    /\ Acked(m, "translating")

\* C12: when translate_text returns None or "", the step that receives the
\* result leaves user_data exactly as it was and goes to the failure message;
\* the slot is never one written by that message, and no prompt is shown for
\* it.
FailureStoresNothing ==
    /\ [](\A m \in DOMAIN runs :
              TranslationFailed(m) =>
                  /\ user_data.original_text # m
                  /\ ~Acked(m, "prompt"))
    /\ [][\A m \in DOMAIN runs :
              (/\ runs[m].pc = "translate"
               /\ runs'[m].pc # "translate"
               /\ runs'[m].translation \in {None, ""})
              => /\ user_data' = user_data
                 /\ runs'[m].pc = "edit_failure"]_vars

\* C12 witness: a translation was pending when the translation of a later
\* message failed, and it is still the pending one
FailureStoresNothingWitness ==
    \E m \in DOMAIN runs : \E n \in DOMAIN runs :
        /\ m < n
        /\ Stored(m)
        /\ TranslationFailed(n)
        /\ runs[n].pc = "edit_failure"
        /\ user_data = [pending_translation |-> runs[m].translation,
                        original_text       |-> m]

\* ------------------------------------------------------------------------
\* C13: one acknowledgement for every outcome
\* ------------------------------------------------------------------------

\* the final acknowledgements delivered for update k (the progress messages
\* "Traduciendo" and "Compartiendo" are not final)
FinalAcks(k) ==
    {n \in DOMAIN acks :
        /\ acks[n].run = k
        /\ acks[n].kind \in {"prompt", "translation_error", "results",
                             "cancelled", "no_pending"}}

\* C13 (as claimed): every message or click that ended in a translation
\* failure, in a sharing (successful or partly failed), in a denial or in a
\* stale confirmation has delivered exactly one final acknowledgement, and the
\* only updates that end without one are messages that did not match the
\* trigger language.
OneAckPerOutcome ==
    \A k \in DOMAIN runs :
        Finished(k) =>
            /\ TranslationFailed(k) => Cardinality(FinalAcks(k)) = 1
            /\ (IsConfirm(k) /\ runs[k].telegram_result # NoResult) =>
                   Cardinality(FinalAcks(k)) = 1
            /\ Cardinality(FinalAcks(k)) <= 1
            /\ FinalAcks(k) = {} => (IsMessage(k) /\ runs[k].lang # "en")

\* ------------------------------------------------------------------------
\* C14: order preservation
\* ------------------------------------------------------------------------

RECURSIVE Concat(_)
Concat(parts) ==
    IF parts = << >> THEN << >> ELSE parts[1] \o Concat(Tail(parts))

IsNotWhitespace(c) == c \notin Whitespace

\* the characters of s that are not whitespace, in order
NonWhitespace(s) == SelectSeq(s, IsNotWhitespace)

\* C14: for every text and every max_length >= 1, the chunks concatenated in
\* returned order carry the non-whitespace characters of the text in their
\* original order, none dropped, duplicated or moved.
OrderPreserved ==
    called \in Splitters =>
        NonWhitespace(Concat(returned)) = NonWhitespace(arg_text)

\* C14 witness: a text of several different words, one of them cut, that
\* was split into at least three chunks
OrderPreservedWitness ==
    /\ called \in Splitters
    /\ Len(returned) >= 3
    /\ ~WordsFit
    /\ \E n \in 1..Len(arg_text) : arg_text[n] = "."
    /\ \E n \in 1..Len(arg_text) : arg_text[n] = "a"
    /\ OrderPreserved

\* ------------------------------------------------------------------------
\* C15: the empty text
\* ------------------------------------------------------------------------

\* C15 (as claimed): called with the empty string, and any max_length >= 1,
\* a splitter returns the empty sequence of chunks, not a sequence holding an
\* empty chunk.
EmptyInput ==
    (called \in Splitters /\ arg_text = << >>) => returned = << >>

\* ------------------------------------------------------------------------
\* C16: clean_text is idempotent
\* ------------------------------------------------------------------------

\* C16: for every string x, clean_text(clean_text(x)) = clean_text(x), and
\* clean_text(x) has no whitespace at either end and no two whitespace
\* characters in a row.
CleanTextIdempotent ==
    called = "clean_text" =>
        /\ clean_text(returned) = returned
        /\ returned # << >> =>
               /\ returned[1] \notin Whitespace
               /\ returned[Len(returned)] \notin Whitespace
        /\ \A n \in 1..(Len(returned) - 1) :
               ~(returned[n] \in Whitespace /\ returned[n + 1] \in Whitespace)

\* C16 witness: a text with whitespace at its start and a run of two
\* whitespace characters between two words
CleanTextWitness ==
    /\ called = "clean_text"
    /\ Len(arg_text) >= 4
    /\ arg_text[1] \in Whitespace
    /\ Len(Words(arg_text)) = 2
    /\ Len(arg_text) > Len(returned) + 1
    /\ \E n \in 2..(Len(arg_text) - 2) :
           /\ arg_text[n - 1] \notin Whitespace
           /\ arg_text[n] \in Whitespace
           /\ arg_text[n + 1] \in Whitespace
    /\ clean_text(returned) = returned

\* ------------------------------------------------------------------------
\* C17: mutual exclusion on the pending slot
\* ------------------------------------------------------------------------

\* the handler of confirm c has read the pending translation and has not yet
\* left
Dispatching(c) ==
    /\ IsConfirm(c)
    /\ runs[c].pc \in {"edit_sharing", "create_tweet", "send_message",
                       "edit_results"}

\* C17: the handlers that store, confirm and deny never interleave: at most
\* one is running; from the moment a confirm reads the pending translation
\* to the moment it leaves, the slot holds what it read; and a translation
\* stored by the handler that started last is the pending one, so the clear
\* of an earlier confirm does not erase it.
MutualExclusion ==
    /\ Cardinality(Running) <= 1
    /\ \A c \in DOMAIN runs :
           Dispatching(c) =>
               user_data.pending_translation = runs[c].translation
    /\ \A m \in DOMAIN runs :
           (Stored(m) /\ LatestHandler(m)) =>
               user_data = [pending_translation |-> runs[m].translation,
                            original_text       |-> m]

\* C17 witness: a message arrived while a confirm was dispatching; the
\* confirm has cleared the slot, and the translation of the message, stored
\* afterwards, is pending
MutualExclusionWitness ==
    \E c \in DOMAIN runs : \E m \in DOMAIN runs :
        /\ IsConfirm(c)
        /\ Posted(c)
        /\ Acked(c, "results")
        /\ runs[m].arrived_during = c
        /\ Stored(m)
        /\ user_data.pending_translation = runs[m].translation

\* ------------------------------------------------------------------------
\* C18: the coarsest boundary that fits
\* ------------------------------------------------------------------------

\* number of non-whitespace characters in the first n elements of parts
RECURSIVE NonWhitespaceUpTo(_, _)
NonWhitespaceUpTo(parts, n) ==
    IF n = 0 THEN 0
    ELSE NonWhitespaceUpTo(parts, n - 1) + Len(NonWhitespace(parts[n]))

\* where the returned chunks end, counted in non-whitespace characters of
\* the text
ChunkCuts ==
    {NonWhitespaceUpTo(returned, n) : n \in 1..(Len(returned) - 1)}

\* a chunk ends strictly inside the n-th element of parts (the sentences or
\* the words of the text)
BrokenAt(parts, n) ==
    \E p \in ChunkCuts :
        /\ NonWhitespaceUpTo(parts, n - 1) < p
        /\ p < NonWhitespaceUpTo(parts, n)

\* C18: a chunk ends inside a sentence only if that sentence alone is longer
\* than max_length, and inside a word only if that word alone is longer than
\* max_length; a sentence or a word of exactly max_length characters is never
\* broken.
CoarsestBoundary ==
    called \in Splitters =>
        /\ \A n \in 1..Len(ReSplitSentences(arg_text)) :
               BrokenAt(ReSplitSentences(arg_text), n) =>
                   Len(ReSplitSentences(arg_text)[n]) > arg_max_length
        /\ \A n \in 1..Len(Words(arg_text)) :
               BrokenAt(Words(arg_text), n) =>
                   Len(Words(arg_text)[n]) > arg_max_length

\* C18 witness: split_twitter_thread met, with an empty buffer, a sentence of
\* two words and exactly max_length characters, kept it whole and put the
\* rest of the text in another chunk
CoarsestBoundaryWitness ==
    /\ called = "split_twitter_thread"
    /\ Len(returned) >= 2
    /\ Len(ReSplitSentences(arg_text)) >= 2
    /\ Len(ReSplitSentences(arg_text)[1]) = arg_max_length
    /\ Len(Words(ReSplitSentences(arg_text)[1])) = 2
    /\ returned[1] = ReSplitSentences(arg_text)[1]

\* ------------------------------------------------------------------------
\* C19: a single post or a thread
\* ------------------------------------------------------------------------

\* C19 (as claimed): the text is posted directly, without thread marker and
\* with a result that is not threaded, exactly when splitting it at the tweet
\* limit gives one chunk; the marker is on the first post only, and only when
\* the split gives more than one chunk; the result is threaded if and only if
\* more than one post was made.
SingleOrThread ==
    \A k \in DOMAIN runs :
        /\ \A n \in TweetCallsOf(k) :
               LET call   == create_tweet_calls[n]
                   chunks == TwitterChunks[runs[k].translation]
               IN  /\ (call.part = 0) = (Len(chunks) = 1)
                   /\ call.marker = (call.part = 1 /\ Len(chunks) > 1)
        /\ (runs[k].twitter_result # NoResult
            /\ runs[k].twitter_result.success) =>
               runs[k].twitter_result.thread =
                   (Cardinality({n \in TweetCallsOf(k) :
                                     create_tweet_calls[n].ok}) > 1)

\* ------------------------------------------------------------------------
\* C20: no empty chunk
\* ------------------------------------------------------------------------

\* C20 (as claimed): for every text longer than max_length (max_length >= 1),
\* no chunk returned by split_long_message or split_twitter_thread is the
\* empty string, also when the text ends with a punctuation mark followed by
\* whitespace and its last sentence fills a chunk.
NoEmptyChunk ==
    (called \in Splitters /\ Len(arg_text) > arg_max_length) =>
        \A n \in 1..Len(returned) : returned[n] # << >>

\* ------------------------------------------------------------------------
\* C21: a stored translation is dispatched at most once
\* ------------------------------------------------------------------------

\* the message whose stored translation the confirm c found pending: the
\* last one that stored before c began (0: none)
StoreReadBy(c) ==
    LET stores == {m \in 1..(c - 1) : Stored(m)}
    IN  IF stores = {} THEN 0 ELSE MaxOf(stores)

\* C21 (as claimed): each stored translation is dispatched to the sinks at
\* most once: two confirms never both post the translation of one store; when
\* a second confirm arrives while the first is still dispatching, only one of
\* them posts and the other, once it has answered, reports that nothing is
\* pending.
AtMostOnceDispatch ==
    \A c \in DOMAIN runs : \A d \in DOMAIN runs :
        (IsConfirm(c) /\ IsConfirm(d) /\ c < d) =>
            /\ (Posted(c) /\ Posted(d)) => StoreReadBy(c) # StoreReadBy(d)
            /\ (runs[d].arrived_during = c /\ Posted(c)) =>
                   /\ ~Posted(d)
                   /\ runs[d].pc \notin {"queued", "raised"} =>
                          runs[d].pc \in {"edit_no_pending", "done"}

====
